---- MODULE Spec2Model ----
(***************************************************************************)
(* Model of luminance-glfw's GlfwSurface (src/luminance-glfw/src/lib.rs)   *)
(* and of luminance's GraphicsContext trait (src/luminance/src/context.rs).*)
(*                                                                         *)
(* One thread is modelled.  GlfwSurface::new_gl33 is a sequence of steps,  *)
(* one per stage of the constructor; the host (the windowing system, the   *)
(* monitors, the GL driver) is an input chosen when the call starts.       *)
(***************************************************************************)
EXTENDS Integers, Sequences, FiniteSets, TLC

\* Bounds of the model: calls of new_gl33, calls of back_buffer, resize
\* events, window events, drains of the event queue, constructor calls,
\* operations on a surface in use.
MaxAttempts == 2
MaxBackBuffers == 3
MaxResizes == 2
MaxEvents == 3
MaxDrains == 2
MaxCalls == 3
MaxOps == 3

None == "None"

\* The absent value of an optional record (Option::None, an unset local).
Nil == [nil |-> TRUE]

\* ---------------------------------------------------------------------------
\* Inputs: WindowOpt (luminance-windowing) and the host the call runs on.
\* ---------------------------------------------------------------------------
\* Requested window sizes (width, height), in screen coordinates.
WindowSizes == {[width |-> 2, height |-> 3], [width |-> 3, height |-> 2]}
SampleCounts == {0, 4}
CursorModes == {"Visible", "Invisible", "Disabled"}
Titles == {"luminance"}

WindowDim ==
  {[mode |-> m, width |-> sz.width, height |-> sz.height] :
     m \in {"Windowed", "FullscreenRestricted"}, sz \in WindowSizes}
    \cup {[mode |-> "Fullscreen", width |-> 0, height |-> 0]}

WindowOpt == [dim : WindowDim, num_samples : SampleCounts, cursor_mode : CursorModes]

\* The video mode a monitor reports: a resolution no WindowDim names.
VideoModes == {[width |-> 5, height |-> 4]}

\* init_ok: glfw::init succeeds; monitor: a primary monitor exists; vmode: the
\* video mode it reports (Nil: none); create_ok: glfwCreateWindow succeeds;
\* query_ok: the GL state of the current context can be queried.
Hosts ==
  { h \in [init_ok : BOOLEAN, monitor : BOOLEAN, vmode : VideoModes \cup {Nil},
           create_ok : BOOLEAN, query_ok : BOOLEAN] :
      ~h.monitor => h.vmode = Nil }

\* ---------------------------------------------------------------------------
\* Results
\* ---------------------------------------------------------------------------
Ok == [variant |-> "Ok", cause |-> None]
Err(v, c) == [variant |-> v, cause |-> c]
NoResult == [variant |-> None, cause |-> None]

ErrorVariants ==
  {"InitError", "WindowCreationFailed", "NoPrimaryMonitor", "NoVideoMode",
   "GraphicsStateError"}

VARIABLES
  pc,          \* position of the thread in new_gl33: a stage, "done" when the
               \* call has returned, "idle" outside a call
  attempts,    \* number of new_gl33 calls made
  title,       \* argument of the current (or last) call
  win_opt,     \* argument of the current (or last) call
  host,        \* the host during the current (or last) call
  glfw,        \* local `glfw` of the call: Nil, or its window hints
  window,      \* local `window` of the call (Nil before stage 3)
  events_rx,   \* local `events_rx` of the call
  calls,       \* library calls made by the current (or last) call, in order
  result,      \* value returned by the last call, NoResult while one runs
  acquired,    \* thread-local: the graphics state was acquired on this thread
  surfaces,    \* the GlfwSurface values alive, oldest first
  osWindows,   \* ids of the windows the windowing system holds
  current,     \* id of the window whose context is current on the thread, 0: none
  bbLog,       \* history: the calls of back_buffer and what they returned
  resizes,     \* history: number of resize events so far
  sent,        \* history: the events the windowing system has appended
  yielded,     \* history: the events the client has received, with the drain
  drains,      \* history: number of drains so far
  ctxLog,      \* history: the GraphicsContext constructor calls
  backendLog,  \* history: the calls of backend() and what they returned
  dropped      \* history: number of surfaces dropped so far

logs == <<bbLog, resizes, sent, yielded, drains, ctxLog, backendLog>>

vars ==
  <<pc, attempts, title, win_opt, host, glfw, window, events_rx, calls, result,
    acquired, surfaces, osWindows, current, logs, dropped>>

\* ---------------------------------------------------------------------------
\* GlfwSurface::new_gl33, stage by stage
\* ---------------------------------------------------------------------------

\* Faulty variant: a failure of glfw::init is reported as a state error.
glfw_init_WrongVariant(h) ==
  IF h.init_ok THEN Ok ELSE Err("GraphicsStateError", "glfw")

\* glfw::init: the windowing system of the host decides.
glfw_init(h) == IF h.init_ok THEN Ok ELSE Err("InitError", "glfw")

\* The five window hints set before any window is created.
WindowHints(opt) ==
  [profile |-> "Core", forward_compat |-> TRUE, major |-> 3, minor |-> 3,
   samples |-> opt.num_samples]

\* Glfw::create_window: Nil when the host refuses, else a fresh window that
\* has the requested size and mode and takes the hints then in force.
create_window(h, id, width, height, t, mode, hints) ==
  IF h.create_ok
    THEN [id |-> id, width |-> width, height |-> height, mode |-> mode,
          title |-> t, samples |-> hints.samples, fb |-> <<width, height>>,
          cursor |-> "Normal", polling |-> FALSE, swap |-> 0]
    ELSE Nil

\* .ok_or(GlfwSurfaceError::WindowCreationFailed)
Created(w, cs) ==
  [window |-> w, calls |-> cs,
   result |-> IF w = Nil THEN Err("WindowCreationFailed", None) ELSE Ok]

\* Faulty variant: the requested width and height change places.
ResolveWindowed_Swapped(dim, t, h, id, hints) ==
  Created(create_window(h, id, dim.height, dim.width, t, "Windowed", hints),
          <<"create_window">>)

\* Faulty variant: the windowed path asks for the primary monitor first.
ResolveWindowed_MonitorLookup(dim, t, h, id, hints) ==
  IF ~h.monitor
    THEN [window |-> Nil, calls |-> <<"with_primary_monitor">>,
          result |-> Err("NoPrimaryMonitor", None)]
  ELSE Created(create_window(h, id, dim.width, dim.height, t, "Windowed", hints),
               <<"with_primary_monitor", "create_window">>)

ResolveWindowed(dim, t, h, id, hints) ==
  Created(create_window(h, id, dim.width, dim.height, t, "Windowed", hints),
          <<"create_window">>)

\* Faulty variant: the video mode is asked for before the monitor is known to exist.
ResolveFullscreen_VideoModeFirst(dim, t, h, id, hints) ==
  IF h.vmode = Nil
    THEN [window |-> Nil, calls |-> <<"with_primary_monitor", "get_video_mode">>,
          result |-> Err("NoVideoMode", None)]
  ELSE IF ~h.monitor
    THEN [window |-> Nil, calls |-> <<"with_primary_monitor">>,
          result |-> Err("NoPrimaryMonitor", None)]
  ELSE Created(create_window(h, id, h.vmode.width, h.vmode.height, t, "FullScreen", hints),
               <<"with_primary_monitor", "get_video_mode", "create_window">>)

\* Faulty variant: the window is created before the video mode is looked up.
ResolveFullscreen_CreateFirst(dim, t, h, id, hints) ==
  IF ~h.monitor
    THEN [window |-> Nil, calls |-> <<"with_primary_monitor">>,
          result |-> Err("NoPrimaryMonitor", None)]
  ELSE IF h.vmode = Nil
    THEN [window |-> Nil,
          calls |-> <<"with_primary_monitor", "create_window", "get_video_mode">>,
          result |-> Err("NoVideoMode", None)]
  ELSE Created(create_window(h, id, h.vmode.width, h.vmode.height, t, "FullScreen", hints),
               <<"with_primary_monitor", "create_window", "get_video_mode">>)

ResolveFullscreen(dim, t, h, id, hints) ==
  IF ~h.monitor
    THEN [window |-> Nil, calls |-> <<"with_primary_monitor">>,
          result |-> Err("NoPrimaryMonitor", None)]
  ELSE IF h.vmode = Nil
    THEN [window |-> Nil, calls |-> <<"with_primary_monitor", "get_video_mode">>,
          result |-> Err("NoVideoMode", None)]
  ELSE Created(create_window(h, id, h.vmode.width, h.vmode.height, t, "FullScreen", hints),
               <<"with_primary_monitor", "get_video_mode", "create_window">>)

\* Faulty variant: the restricted path consults the video mode as the Fullscreen path does.
ResolveFullscreenRestricted_VideoMode(dim, t, h, id, hints) ==
  IF ~h.monitor
    THEN [window |-> Nil, calls |-> <<"with_primary_monitor">>,
          result |-> Err("NoPrimaryMonitor", None)]
  ELSE IF h.vmode = Nil
    THEN [window |-> Nil, calls |-> <<"with_primary_monitor", "get_video_mode">>,
          result |-> Err("NoVideoMode", None)]
  ELSE Created(create_window(h, id, h.vmode.width, h.vmode.height, t, "FullScreen", hints),
               <<"with_primary_monitor", "get_video_mode", "create_window">>)

ResolveFullscreenRestricted(dim, t, h, id, hints) ==
  IF ~h.monitor
    THEN [window |-> Nil, calls |-> <<"with_primary_monitor">>,
          result |-> Err("NoPrimaryMonitor", None)]
  ELSE Created(create_window(h, id, dim.width, dim.height, t, "FullScreen", hints),
               <<"with_primary_monitor", "create_window">>)

\* match dim { Windowed | Fullscreen | FullscreenRestricted }
ResolveWindow(dim, t, h, id, hints) ==
  CASE dim.mode = "Windowed" -> ResolveWindowed(dim, t, h, id, hints)
    [] dim.mode = "Fullscreen" -> ResolveFullscreen(dim, t, h, id, hints)
    [] dim.mode = "FullscreenRestricted" ->
         ResolveFullscreenRestricted(dim, t, h, id, hints)

\* Faulty variant: Invisible is taken for Disabled.
GlfwCursorMode_Merged(c) ==
  CASE c = "Visible" -> "Normal"
    [] c = "Invisible" -> "Disabled"
    [] c = "Disabled" -> "Disabled"

\* match win_opt.cursor_mode() { ... }
GlfwCursorMode(c) ==
  CASE c = "Visible" -> "Normal"
    [] c = "Invisible" -> "Hidden"
    [] c = "Disabled" -> "Disabled"

\* window.set_cursor_mode(..); window.set_all_polling(true);
\* glfw.set_swap_interval(SwapInterval::Sync(1)) on the current context.
ConfigureInput(w, opt) ==
  [w EXCEPT !.cursor = GlfwCursorMode(opt.cursor_mode),
            !.polling = TRUE,
            !.swap = 1]

\* GL33::new (luminance-gl): the graphics state can be acquired once per
\* thread, and needs a context whose state can be queried.
GL33_new(acq, h, id) ==
  IF acq THEN [variant |-> "Err", cause |-> "UnavailableGLState", gl |-> Nil]
  ELSE IF ~h.query_ok THEN [variant |-> "Err", cause |-> "QueryFailed", gl |-> Nil]
  ELSE [variant |-> "Ok", cause |-> None, gl |-> [id |-> id, nres |-> 0]]

\* Faulty variant: the state-query error is reported under another variant.
AcquireResult_WrongVariant(r) ==
  IF r.variant = "Ok" THEN Ok ELSE Err("WindowCreationFailed", r.cause)

\* .map_err(GlfwSurfaceError::GraphicsStateError)
AcquireResult(r) ==
  IF r.variant = "Ok" THEN Ok ELSE Err("GraphicsStateError", r.cause)

\* let surface = GlfwSurface { window, events_rx, gl };
GlfwSurface(w, rx, gl) == [window |-> w, events_rx |-> rx, gl |-> gl]

\* Faulty variant: the window outlives the value that owned it.
DestroyWindow_Leak(ws, w) == ws

\* Dropping a Window destroys it in the windowing system.
DestroyWindow(ws, w) == IF w = Nil THEN ws ELSE ws \ {w.id}

CurrentAfterDestroy(c, w) == IF w # Nil /\ c = w.id THEN 0 ELSE c

\* Faulty variant: an early return leaves the thread's graphics state taken.
Fail_Acquires(e) ==
  /\ pc' = "done"
  /\ result' = e
  /\ osWindows' = DestroyWindow(osWindows, window)
  /\ current' = CurrentAfterDestroy(current, window)
  /\ glfw' = Nil
  /\ window' = Nil
  /\ events_rx' = Nil
  /\ acquired' = TRUE
  /\ UNCHANGED <<logs, dropped>>
  /\ UNCHANGED <<attempts, title, win_opt, host, surfaces>>

\* An early return (the ? operator): the error is the call's value and the
\* locals acquired so far (glfw, window, events_rx) are dropped.
Fail(e) ==
  /\ pc' = "done"
  /\ result' = e
  /\ osWindows' = DestroyWindow(osWindows, window)
  /\ current' = CurrentAfterDestroy(current, window)
  /\ glfw' = Nil
  /\ window' = Nil
  /\ events_rx' = Nil
  /\ UNCHANGED <<logs, dropped>>
  /\ UNCHANGED <<attempts, title, win_opt, host, acquired, surfaces>>

Call(t, opt, h) ==
  /\ pc = "idle"
  /\ attempts < MaxAttempts
  /\ pc' = "init"
  /\ attempts' = attempts + 1
  /\ title' = t
  /\ win_opt' = opt
  /\ host' = h
  /\ calls' = <<>>
  /\ result' = NoResult
  /\ glfw' = Nil
  /\ window' = Nil
  /\ events_rx' = Nil
  /\ UNCHANGED <<logs, dropped>>
  /\ UNCHANGED <<acquired, surfaces, osWindows, current>>

\* Stage 1: glfw::init(error_cbk).map_err(GlfwSurfaceError::InitError)?
StageInit ==
  /\ pc = "init"
  /\ calls' = Append(calls, "init")
  /\ IF glfw_init(host) = Ok
       THEN /\ glfw' = [hints |-> Nil]
            /\ pc' = "hints"
            /\ UNCHANGED <<logs, dropped>>
            /\ UNCHANGED <<attempts, title, win_opt, host, window, events_rx, result,
                           acquired, surfaces, osWindows, current>>
       ELSE Fail(glfw_init(host))

\* Stage 2: glfw.window_hint(...) five times.
StageHints ==
  /\ pc = "hints"
  /\ calls' = Append(calls, "window_hint")
  /\ glfw' = [hints |-> WindowHints(win_opt)]
  /\ pc' = "resolve"
  /\ UNCHANGED <<logs, dropped>>
  /\ UNCHANGED <<attempts, title, win_opt, host, window, events_rx, result,
                 acquired, surfaces, osWindows, current>>

\* Stage 3: let (mut window, events_rx) = match dim { ... };
StageResolve ==
  /\ pc = "resolve"
  /\ LET r == ResolveWindow(win_opt.dim, title, host, attempts, glfw.hints) IN
       /\ calls' = calls \o r.calls
       /\ IF r.result = Ok
            THEN /\ window' = r.window
                 /\ events_rx' = [queue |-> <<>>]
                 /\ osWindows' = osWindows \cup {r.window.id}
                 /\ pc' = "make_current"
                 /\ UNCHANGED <<logs, dropped>>
                 /\ UNCHANGED <<attempts, title, win_opt, host, glfw, result,
                                acquired, surfaces, current>>
            ELSE Fail(r.result)

\* Stage 4: window.make_current();
StageMakeCurrent ==
  /\ pc = "make_current"
  /\ calls' = Append(calls, "make_current")
  /\ current' = window.id
  /\ pc' = "input"
  /\ UNCHANGED <<logs, dropped>>
  /\ UNCHANGED <<attempts, title, win_opt, host, glfw, window, events_rx, result,
                 acquired, surfaces, osWindows>>

\* Faulty variant: the GL symbols are not loaded before the state is acquired.
StageInput_SkipLoad ==
  /\ pc = "input"
  /\ calls' = calls \o <<"set_cursor_mode", "set_all_polling", "set_swap_interval">>
  /\ window' = ConfigureInput(window, win_opt)
  /\ pc' = "acquire"
  /\ UNCHANGED <<logs, dropped>>
  /\ UNCHANGED <<attempts, title, win_opt, host, glfw, events_rx, result,
                 acquired, surfaces, osWindows, current>>

\* Stage 5: cursor mode, set_all_polling(true), set_swap_interval(Sync(1)).
StageInput ==
  /\ pc = "input"
  /\ calls' = calls \o <<"set_cursor_mode", "set_all_polling", "set_swap_interval">>
  /\ window' = ConfigureInput(window, win_opt)
  /\ pc' = "load"
  /\ UNCHANGED <<logs, dropped>>
  /\ UNCHANGED <<attempts, title, win_opt, host, glfw, events_rx, result,
                 acquired, surfaces, osWindows, current>>

\* Stage 6: gl::load_with(|s| window.get_proc_address(s) as *const c_void);
StageLoad ==
  /\ pc = "load"
  /\ calls' = Append(calls, "load_with")
  /\ pc' = "acquire"
  /\ UNCHANGED <<logs, dropped>>
  /\ UNCHANGED <<attempts, title, win_opt, host, glfw, window, events_rx, result,
                 acquired, surfaces, osWindows, current>>

\* Stage 7: GL33::new().map_err(...)?, then the surface is built and returned.
StageAcquire ==
  /\ pc = "acquire"
  /\ calls' = Append(calls, "GL33::new")
  /\ LET r == GL33_new(acquired, host, attempts) IN
       IF AcquireResult(r) = Ok
         THEN /\ acquired' = TRUE
              /\ surfaces' = Append(surfaces, GlfwSurface(window, events_rx, r.gl))
              /\ result' = Ok
              /\ pc' = "done"
              /\ glfw' = Nil
              /\ window' = Nil
              /\ events_rx' = Nil
              /\ UNCHANGED <<logs, dropped>>
              /\ UNCHANGED <<attempts, title, win_opt, host, osWindows, current>>
         ELSE Fail(AcquireResult(r))

\* The caller goes on: the frame of the call (arguments, result) is gone.
Leave ==
  /\ pc = "done"
  /\ pc' = "idle"
  /\ title' = None
  /\ win_opt' = Nil
  /\ host' = Nil
  /\ calls' = <<>>
  /\ result' = NoResult
  /\ UNCHANGED <<logs, dropped>>
  /\ UNCHANGED <<attempts, glfw, window, events_rx, acquired, surfaces, osWindows,
                 current>>

\* The client drops a surface: its window is destroyed and the thread's
\* graphics state is released.
RemoveAt(s, i) == [k \in 1..(Len(s) - 1) |-> IF k < i THEN s[k] ELSE s[k + 1]]

\* Faulty variant: dropping a surface leaves the graphics state taken.
Drop_KeepsAcquired(i) ==
  /\ pc = "idle"
  /\ i \in DOMAIN surfaces
  /\ surfaces' = RemoveAt(surfaces, i)
  /\ osWindows' = DestroyWindow(osWindows, surfaces[i].window)
  /\ current' = CurrentAfterDestroy(current, surfaces[i].window)
  /\ dropped' = dropped + 1
  /\ UNCHANGED <<acquired, logs>>
  /\ UNCHANGED <<pc, attempts, title, win_opt, host, glfw, window, events_rx, calls,
                 result>>

Drop(i) ==
  /\ pc = "idle"
  /\ i \in DOMAIN surfaces
  /\ surfaces' = RemoveAt(surfaces, i)
  /\ osWindows' = DestroyWindow(osWindows, surfaces[i].window)
  /\ current' = CurrentAfterDestroy(current, surfaces[i].window)
  /\ acquired' = FALSE
  /\ dropped' = dropped + 1
  /\ UNCHANGED logs
  /\ UNCHANGED <<pc, attempts, title, win_opt, host, glfw, window, events_rx, calls,
                 result>>

Init ==
  /\ pc = "idle"
  /\ attempts = 0
  /\ title = None
  /\ win_opt = Nil
  /\ host = Nil
  /\ glfw = Nil
  /\ window = Nil
  /\ events_rx = Nil
  /\ calls = <<>>
  /\ result = NoResult
  /\ acquired = FALSE
  /\ surfaces = <<>>
  /\ osWindows = {}
  /\ current = 0
  /\ bbLog = <<>>
  /\ resizes = 0
  /\ sent = <<>>
  /\ yielded = <<>>
  /\ drains = 0
  /\ ctxLog = <<>>
  /\ backendLog = <<>>
  /\ dropped = 0

Next ==
  \/ \E t \in Titles, opt \in WindowOpt, h \in Hosts : Call(t, opt, h)
  \/ StageInit
  \/ StageHints
  \/ StageResolve
  \/ StageMakeCurrent
  \/ StageInput
  \/ StageLoad
  \/ StageAcquire
  \/ Leave
  \/ \E i \in DOMAIN surfaces : Drop(i)

Spec == Init /\ [][Next]_vars

\* ---------------------------------------------------------------------------
\* A surface in use: the state after one successful new_gl33
\* ---------------------------------------------------------------------------
SurfaceOpts ==
  {[dim |-> [mode |-> "Windowed", width |-> 2, height |-> 3],
    num_samples |-> 0, cursor_mode |-> "Visible"],
   [dim |-> [mode |-> "FullscreenRestricted", width |-> 3, height |-> 2],
    num_samples |-> 4, cursor_mode |-> "Disabled"]}

GoodHosts ==
  {h \in Hosts : h.init_ok /\ h.monitor /\ h.vmode # Nil /\ h.create_ok /\ h.query_ok}

\* The surface the first call of new_gl33 returns for opt on host h.
BuiltSurface(t, opt, h) ==
  GlfwSurface(
    ConfigureInput(ResolveWindow(opt.dim, t, h, 1, WindowHints(opt)).window, opt),
    [queue |-> <<>>],
    GL33_new(FALSE, h, 1).gl)

InitSurface ==
  /\ pc = "idle"
  /\ attempts = 1
  /\ title = None
  /\ win_opt = Nil
  /\ host = Nil
  /\ glfw = Nil
  /\ window = Nil
  /\ events_rx = Nil
  /\ calls = <<>>
  /\ result = NoResult
  /\ acquired = TRUE
  /\ \E t \in Titles, opt \in SurfaceOpts, h \in GoodHosts :
       surfaces = <<BuiltSurface(t, opt, h)>>
  /\ osWindows = {1}
  /\ current = 1
  /\ bbLog = <<>>
  /\ resizes = 0
  /\ sent = <<>>
  /\ yielded = <<>>
  /\ drains = 0
  /\ ctxLog = <<>>
  /\ backendLog = <<>>
  /\ dropped = 0

construction ==
  <<pc, attempts, title, win_opt, host, glfw, window, events_rx, calls, result,
    acquired, osWindows, current, dropped>>

\* ---------------------------------------------------------------------------
\* GlfwSurface::back_buffer
\* ---------------------------------------------------------------------------

\* Framebuffer sizes the windowing system may report (c_int width, height).
FbSizes == {<<2, 3>>, <<3, 2>>, <<0, 3>>, <<-1, 2>>}

\* Faulty variant: a saturating conversion, negative values become 0.
AsU32_Saturating(d) ==
  IF d < 0 THEN [hi |-> 0, lo |-> 0]
  ELSE [hi |-> (d \div 65536) % 65536, lo |-> d % 65536]

\* `d as u32` for an i32 d, as the two 16-bit halves of the 32-bit value.
AsU32(d) == [hi |-> (d \div 65536) % 65536, lo |-> d % 65536]

U32Zero == [hi |-> 0, lo |-> 0]

\* Framebuffer::back_buffer (luminance): the window's default render target
\* at the given size; a size with a zero side is rejected.
Framebuffer_back_buffer(gl, size) ==
  IF size[1] = U32Zero \/ size[2] = U32Zero
    THEN [variant |-> "Err", error |-> "FramebufferError"]
    ELSE [variant |-> "Ok", size |-> size]

\* Faulty variant: back_buffer leaves the window with its sides exchanged.
back_buffer_Resizing(s) ==
  LET fb == s.window.fb IN
    [surface |-> [s EXCEPT !.window.fb = <<fb[2], fb[1]>>],
     requested |-> <<AsU32(fb[1]), AsU32(fb[2])>>,
     result |-> Framebuffer_back_buffer(s.gl, <<AsU32(fb[1]), AsU32(fb[2])>>)]

\* Faulty variant: back_buffer asks for the size the window was created with.
back_buffer_Remembered(s) ==
  LET size == <<AsU32(s.window.width), AsU32(s.window.height)>> IN
    [surface |-> s,
     requested |-> size,
     result |-> Framebuffer_back_buffer(s.gl, size)]

\* let (w, h) = self.window.get_framebuffer_size();
\* Framebuffer::back_buffer(self, [w as u32, h as u32])
back_buffer(s) ==
  LET fb == s.window.fb IN
    [surface |-> s,
     requested |-> <<AsU32(fb[1]), AsU32(fb[2])>>,
     result |-> Framebuffer_back_buffer(s.gl, <<AsU32(fb[1]), AsU32(fb[2])>>)]

BackBuffer(i) ==
  /\ pc = "idle"
  /\ i \in DOMAIN surfaces
  /\ Len(bbLog) < MaxBackBuffers
  /\ LET r == back_buffer(surfaces[i]) IN
       /\ surfaces' = [surfaces EXCEPT ![i] = r.surface]
       /\ bbLog' = Append(bbLog, [id |-> surfaces[i].window.id,
                                  epoch |-> resizes,
                                  before |-> surfaces[i].window.fb,
                                  after |-> r.surface.window.fb,
                                  requested |-> r.requested,
                                  result |-> r.result])
  /\ UNCHANGED <<resizes, sent, yielded, drains, ctxLog, backendLog>>
  /\ UNCHANGED construction

\* The windowing system resizes the framebuffer of a window.
Resize(i, sz) ==
  /\ i \in DOMAIN surfaces
  /\ resizes < MaxResizes
  /\ surfaces' = [surfaces EXCEPT ![i].window.fb = sz]
  /\ resizes' = resizes + 1
  /\ UNCHANGED <<bbLog, sent, yielded, drains, ctxLog, backendLog>>
  /\ UNCHANGED construction

NextBackBuffer ==
  \/ \E i \in DOMAIN surfaces : BackBuffer(i)
  \/ \E i \in DOMAIN surfaces, sz \in FbSizes : Resize(i, sz)

SpecBackBuffer == InitSurface /\ [][NextBackBuffer]_vars

\* ---------------------------------------------------------------------------
\* The event queue: events_rx, a std::sync::mpsc::Receiver<(f64, WindowEvent)>
\* ---------------------------------------------------------------------------
EventKinds == {"Key", "FramebufferSize"}

\* The sending half, held by the window: a message goes to the back.
Chan_send(q, e) == Append(q, e)

\* Faulty variant: the newest message is received first.
Chan_recv_Newest(q) ==
  [queue |-> SubSeq(q, 1, Len(q) - 1), msg |-> q[Len(q)]]

\* Receiver::try_recv on a non-empty channel: the oldest message leaves it.
Chan_recv(q) == [queue |-> Tail(q), msg |-> Head(q)]

\* k messages received one after the other (glfw::flush_messages, try_iter).
RECURSIVE RecvN(_, _)
RecvN(q, k) ==
  IF k = 0 THEN [queue |-> q, msgs |-> <<>>]
  ELSE LET r == Chan_recv(q)
           rest == RecvN(r.queue, k - 1)
       IN [queue |-> rest.queue, msgs |-> <<r.msg>> \o rest.msgs]

\* The windowing system appends an event of a window that has polling on;
\* the time stamp is the time of occurrence.
Send(i, ev) ==
  /\ i \in DOMAIN surfaces
  /\ surfaces[i].window.polling
  /\ Len(sent) < MaxEvents
  /\ LET e == [win |-> surfaces[i].window.id, time |-> Len(sent) + 1, event |-> ev] IN
       /\ surfaces' =
            [surfaces EXCEPT ![i].events_rx.queue = Chan_send(@, e)]
       /\ sent' = Append(sent, e)
  /\ UNCHANGED <<bbLog, resizes, yielded, drains, ctxLog, backendLog>>
  /\ UNCHANGED construction

\* The client drains k of the queued events of surface i.
Drain(i, k) ==
  /\ pc = "idle"
  /\ i \in DOMAIN surfaces
  /\ drains < MaxDrains
  /\ k \in 1..Len(surfaces[i].events_rx.queue)
  /\ LET r == RecvN(surfaces[i].events_rx.queue, k) IN
       /\ surfaces' = [surfaces EXCEPT ![i].events_rx.queue = r.queue]
       /\ yielded' = yielded \o
            [j \in 1..k |-> [drain |-> drains + 1, msg |-> r.msgs[j]]]
  /\ drains' = drains + 1
  /\ UNCHANGED <<bbLog, resizes, sent, ctxLog, backendLog>>
  /\ UNCHANGED construction

NextEvents ==
  \/ \E i \in DOMAIN surfaces, ev \in EventKinds : Send(i, ev)
  \/ \E i \in DOMAIN surfaces, k \in 1..MaxEvents : Drain(i, k)

SpecEvents == InitSurface /\ [][NextEvents]_vars

\* ---------------------------------------------------------------------------
\* GraphicsContext: the resource constructors (context.rs)
\* ---------------------------------------------------------------------------

\* Inputs of the constructors.
BufferLens == {0, 2}
BufferVecs == {<<>>, <<7, 7>>}
BufferValues == {7}
ResourceSizes == {<<0, 0>>, <<2, 3>>}
Mipmaps == {0}
Samplers == {"default"}
StageTypes == {"VertexShader"}
StageSources == {"void main() {}", "void main() {"}

\* Whether the backend rejects the specification of a resource.
Rejects(op, args) ==
  CASE op = "Buffer::new" -> args[1] = 0
    [] op = "Buffer::from_vec" -> Len(args[1]) = 0
    [] op = "Buffer::repeat" -> args[1] = 0
    [] op = "Framebuffer::new" -> args[1][1] = 0 \/ args[1][2] = 0
    [] op = "Stage::new" -> args[2] = "void main() {"
    [] op = "Texture::new" -> args[1][1] = 0 \/ args[1][2] = 0

\* The error type of each resource kind.
ErrorOf(op) ==
  CASE op \in {"Buffer::new", "Buffer::from_vec", "Buffer::repeat"} -> "BufferError"
    [] op = "Framebuffer::new" -> "FramebufferError"
    [] op = "Stage::new" -> "StageError"
    [] op = "Texture::new" -> "TextureError"

\* Buffer::new, Buffer::from_vec, Buffer::repeat, Framebuffer::new,
\* Stage::new, Texture::new (luminance): the backend takes or rejects the
\* specification; a resource it creates gets the next handle.
Resource_new(op, gl, args) ==
  IF Rejects(op, args)
    THEN [gl |-> gl, result |-> [variant |-> "Err", error |-> ErrorOf(op)]]
    ELSE [gl |-> [gl EXCEPT !.nres = @ + 1],
          result |-> [variant |-> "Ok", handle |-> gl.nres + 1]]

\* A constructor that makes one call of the resource's own constructor and
\* returns what it returns.
Delegate(ctx, op, args) ==
  LET u == Resource_new(op, ctx.gl, args) IN
    [ctx |-> [ctx EXCEPT !.gl = u.gl],
     result |-> u.result,
     invoked |-> <<[op |-> op, args |-> args, result |-> u.result]>>]

\* Faulty variant: a constructor that tries again when the first call fails.
DelegateRetrying(ctx, op, args) ==
  LET first == Delegate(ctx, op, args)
      again == Delegate(first.ctx, op, args)
  IN IF first.result.variant = "Ok" THEN first
     ELSE [ctx |-> again.ctx, result |-> again.result,
           invoked |-> first.invoked \o again.invoked]

\* Faulty variant: once a buffer exists it is handed out again instead of a new one.
new_buffer_Pooled(ctx, len) ==
  IF ctx.gl.nres > 0
    THEN [ctx |-> ctx, result |-> [variant |-> "Ok", handle |-> ctx.gl.nres],
          invoked |-> <<>>]
    ELSE Delegate(ctx, "Buffer::new", <<len>>)

\* Buffer::new(self, len)
new_buffer(ctx, len) == Delegate(ctx, "Buffer::new", <<len>>)

\* Buffer::from_vec(self, vec)
new_buffer_from_vec(ctx, vec) == Delegate(ctx, "Buffer::from_vec", <<vec>>)

\* Buffer::repeat(self, len, value)
new_buffer_repeating(ctx, len, value) == Delegate(ctx, "Buffer::repeat", <<len, value>>)

\* Framebuffer::new(self, size, mipmaps, sampler)
new_framebuffer(ctx, size, mipmaps, sampler) ==
  Delegate(ctx, "Framebuffer::new", <<size, mipmaps, sampler>>)

\* Faulty variant: a stage that does not compile is compiled a second time.
new_shader_stage_Retrying(ctx, ty, src) == DelegateRetrying(ctx, "Stage::new", <<ty, src>>)

\* Stage::new(self, ty, src)
new_shader_stage(ctx, ty, src) == Delegate(ctx, "Stage::new", <<ty, src>>)

\* Texture::new(self, size, mipmaps, sampler)
new_texture(ctx, size, mipmaps, sampler) ==
  Delegate(ctx, "Texture::new", <<size, mipmaps, sampler>>)

\* The call `method(args)` on context i has run as r.
Constructed(i, method, args, r) ==
  /\ pc = "idle"
  /\ Len(ctxLog) < MaxCalls
  /\ surfaces' = [surfaces EXCEPT ![i] = r.ctx]
  /\ ctxLog' = Append(ctxLog, [ctx |-> surfaces[i].window.id, method |-> method,
                               args |-> args, ret |-> r.result,
                               invoked |-> r.invoked])
  /\ UNCHANGED <<bbLog, resizes, sent, yielded, drains, backendLog>>
  /\ UNCHANGED construction

NewBuffer(i, len) ==
  Constructed(i, "new_buffer", <<len>>, new_buffer(surfaces[i], len))

NewBufferFromVec(i, vec) ==
  Constructed(i, "new_buffer_from_vec", <<vec>>, new_buffer_from_vec(surfaces[i], vec))

NewBufferRepeating(i, len, value) ==
  Constructed(i, "new_buffer_repeating", <<len, value>>,
              new_buffer_repeating(surfaces[i], len, value))

NewFramebuffer(i, size, mipmaps, sampler) ==
  Constructed(i, "new_framebuffer", <<size, mipmaps, sampler>>,
              new_framebuffer(surfaces[i], size, mipmaps, sampler))

NewShaderStage(i, ty, src) ==
  Constructed(i, "new_shader_stage", <<ty, src>>, new_shader_stage(surfaces[i], ty, src))

NewTexture(i, size, mipmaps, sampler) ==
  Constructed(i, "new_texture", <<size, mipmaps, sampler>>,
              new_texture(surfaces[i], size, mipmaps, sampler))

NextContext ==
  \/ \E i \in DOMAIN surfaces, len \in BufferLens : NewBuffer(i, len)
  \/ \E i \in DOMAIN surfaces, vec \in BufferVecs : NewBufferFromVec(i, vec)
  \/ \E i \in DOMAIN surfaces, len \in BufferLens, value \in BufferValues :
       NewBufferRepeating(i, len, value)
  \/ \E i \in DOMAIN surfaces, size \in ResourceSizes, mipmaps \in Mipmaps,
        sampler \in Samplers : NewFramebuffer(i, size, mipmaps, sampler)
  \/ \E i \in DOMAIN surfaces, ty \in StageTypes, src \in StageSources :
       NewShaderStage(i, ty, src)
  \/ \E i \in DOMAIN surfaces, size \in ResourceSizes, mipmaps \in Mipmaps,
        sampler \in Samplers : NewTexture(i, size, mipmaps, sampler)

SpecContext == InitSurface /\ [][NextContext]_vars

\* ---------------------------------------------------------------------------
\* A surface in use as a GraphicsContext: backend(), back_buffer() and the
\* constructors, in any order
\* ---------------------------------------------------------------------------

\* Faulty variant: backend() hands out a backend made on the spot.
backend_Fresh(s) == [id |-> s.gl.id + 1, nres |-> 0]

\* fn backend(&mut self) -> &mut Self::Backend { &mut self.gl }
backend(s) == s.gl

Backend(i) ==
  /\ pc = "idle"
  /\ i \in DOMAIN surfaces
  /\ backendLog' = Append(backendLog, [ctx |-> surfaces[i].window.id,
                                       owned |-> surfaces[i].gl,
                                       gl |-> backend(surfaces[i])])
  /\ UNCHANGED <<surfaces, bbLog, resizes, sent, yielded, drains, ctxLog>>
  /\ UNCHANGED construction

\* Operations made on surfaces so far.
OpsDone == Len(bbLog) + Len(ctxLog) + Len(backendLog)

\* A step of the client while it has operations left.
ClientStep(A) == OpsDone < MaxOps /\ A

NextAdapter ==
  \/ \E i \in DOMAIN surfaces : ClientStep(Backend(i))
  \/ \E i \in DOMAIN surfaces : ClientStep(BackBuffer(i))
  \/ \E i \in DOMAIN surfaces, len \in BufferLens : ClientStep(NewBuffer(i, len))
  \/ \E i \in DOMAIN surfaces, vec \in BufferVecs : ClientStep(NewBufferFromVec(i, vec))
  \/ \E i \in DOMAIN surfaces, len \in BufferLens, value \in BufferValues :
       ClientStep(NewBufferRepeating(i, len, value))
  \/ \E i \in DOMAIN surfaces, size \in ResourceSizes, mipmaps \in Mipmaps,
        sampler \in Samplers : ClientStep(NewFramebuffer(i, size, mipmaps, sampler))
  \/ \E i \in DOMAIN surfaces, ty \in StageTypes, src \in StageSources :
       ClientStep(NewShaderStage(i, ty, src))
  \/ \E i \in DOMAIN surfaces, size \in ResourceSizes, mipmaps \in Mipmaps,
        sampler \in Samplers : ClientStep(NewTexture(i, size, mipmaps, sampler))

SpecAdapter == InitSurface /\ [][NextAdapter]_vars

\* ---------------------------------------------------------------------------
\* Properties of GlfwSurface::new_gl33
\* ---------------------------------------------------------------------------
Has(s, x) == \E i \in DOMAIN s : s[i] = x
Pos(s, x) == CHOOSE i \in DOMAIN s : s[i] = x
Last(s) == s[Len(s)]
Count(s, x) == Cardinality({i \in DOMAIN s : s[i] = x})

Returned == pc = "done"

\* A surface built by an earlier call is alive.
PriorAlive == \E i \in DOMAIN surfaces : surfaces[i].window.id < attempts

\* The surface the call that just returned has built, if it built one.
NewSurfaces == {i \in DOMAIN surfaces : surfaces[i].window.id = attempts}

\* The host condition that explains an error of stage 1 or stage 3.
HostExplains(v) ==
  CASE v = "InitError" -> ~host.init_ok
    [] v = "NoPrimaryMonitor" -> ~host.monitor
    [] v = "NoVideoMode" -> host.vmode = Nil
    [] v = "WindowCreationFailed" -> ~host.create_ok
    [] OTHER -> FALSE

\* C1: a call of new_gl33 made while a surface built by an earlier call is
\* alive never returns Ok; when it gets as far as GL33::new it fails there with
\* GraphicsStateError (the state is unavailable), after the window of this
\* attempt was created, made current and the symbols were loaded; any other
\* error it returns is an error of stage 1 or 3 that the host explains.
C1_SecondConstructionFails ==
  (Returned /\ PriorAlive) =>
    /\ result.variant # "Ok"
    /\ NewSurfaces = {}
    /\ (result.variant = "GraphicsStateError") <=> Has(calls, "GL33::new")
    /\ result.variant = "GraphicsStateError" =>
         /\ result.cause = "UnavailableGLState"
         /\ Last(calls) = "GL33::new"
         /\ Has(calls, "create_window") /\ Has(calls, "make_current")
         /\ Has(calls, "load_with")
         /\ Pos(calls, "create_window") < Pos(calls, "make_current")
         /\ Pos(calls, "make_current") < Pos(calls, "load_with")
         /\ Pos(calls, "load_with") < Pos(calls, "GL33::new")
    /\ result.variant # "GraphicsStateError" => HostExplains(result.variant)

C1_Witness ==
  /\ Returned /\ PriorAlive
  /\ host.init_ok /\ host.create_ok /\ host.query_ok
  /\ result = Err("GraphicsStateError", "UnavailableGLState")

\* C2 as stated: a Windowed call returns Ok with a window of the requested
\* size or WindowCreationFailed, and nothing else.
C2_OnlyTwoOutcomes ==
  (Returned /\ win_opt.dim.mode = "Windowed") =>
    /\ result.variant \in {"Ok", "WindowCreationFailed"}
    /\ \A i \in NewSurfaces :
         /\ surfaces[i].window.width = win_opt.dim.width
         /\ surfaces[i].window.height = win_opt.dim.height

\* C2 amended: a Windowed call returns Ok with a window created windowed with
\* exactly the requested width and height, or WindowCreationFailed, or
\* InitError (stage 1 failed), or GraphicsStateError (stage 7 failed); it
\* never returns NoPrimaryMonitor or NoVideoMode.
C2_WindowedOutcomes ==
  (Returned /\ win_opt.dim.mode = "Windowed") =>
    /\ result.variant \in
         {"Ok", "WindowCreationFailed", "InitError", "GraphicsStateError"}
    /\ (result.variant = "Ok") <=> (NewSurfaces # {})
    /\ \A i \in NewSurfaces :
         /\ surfaces[i].window.width = win_opt.dim.width
         /\ surfaces[i].window.height = win_opt.dim.height
         /\ surfaces[i].window.mode = "Windowed"
         /\ surfaces[i].window.title = title

C2_Witness ==
  /\ Returned /\ win_opt.dim.mode = "Windowed" /\ result = Ok
  /\ \E i \in NewSurfaces :
       /\ surfaces[i].window.width = 2
       /\ surfaces[i].window.height = 3

\* C3 as stated: Fullscreen on a host without monitors returns
\* NoPrimaryMonitor and nothing else.
C3_AlwaysNoPrimaryMonitor ==
  (Returned /\ win_opt.dim.mode = "Fullscreen" /\ ~host.monitor) =>
    result.variant = "NoPrimaryMonitor"

\* C3 amended: Fullscreen on a host without monitors returns NoPrimaryMonitor
\* when glfw::init succeeds and InitError when it does not, whatever the
\* sample count and the cursor mode; never Ok, never another variant.
C3_NoMonitor ==
  (Returned /\ win_opt.dim.mode = "Fullscreen" /\ ~host.monitor) =>
    /\ result.variant = IF host.init_ok THEN "NoPrimaryMonitor" ELSE "InitError"
    /\ NewSurfaces = {}

C3_Witness ==
  /\ Returned /\ win_opt.dim.mode = "Fullscreen" /\ ~host.monitor
  /\ win_opt.num_samples = 4 /\ win_opt.cursor_mode = "Disabled"
  /\ result.variant = "NoPrimaryMonitor"

\* C4 as stated: Fullscreen on a host whose primary monitor reports no video
\* mode returns NoVideoMode, and create_window is not called.
C4_AlwaysNoVideoMode ==
  (Returned /\ win_opt.dim.mode = "Fullscreen" /\ host.monitor /\ host.vmode = Nil) =>
    /\ result.variant = "NoVideoMode"
    /\ ~Has(calls, "create_window")

\* C4 amended: Fullscreen on a host whose primary monitor reports no video
\* mode returns NoVideoMode when glfw::init succeeds and InitError when it
\* does not; in both cases create_window is not called and no window exists.
C4_NoVideoMode ==
  (Returned /\ win_opt.dim.mode = "Fullscreen" /\ host.monitor /\ host.vmode = Nil) =>
    /\ result.variant = IF host.init_ok THEN "NoVideoMode" ELSE "InitError"
    /\ ~Has(calls, "create_window")
    /\ attempts \notin osWindows
    /\ NewSurfaces = {}

C4_Witness ==
  /\ Returned /\ win_opt.dim.mode = "Fullscreen" /\ host.monitor /\ host.vmode = Nil
  /\ host.create_ok
  /\ result.variant = "NoVideoMode"
  /\ calls = <<"init", "window_hint", "with_primary_monitor", "get_video_mode">>

\* The library call at which each error variant is raised.
FailingCall(v) ==
  CASE v = "InitError" -> "init"
    [] v = "NoPrimaryMonitor" -> "with_primary_monitor"
    [] v = "NoVideoMode" -> "get_video_mode"
    [] v = "WindowCreationFailed" -> "create_window"
    [] v = "GraphicsStateError" -> "GL33::new"

\* C5: a call that returns an error stopped at the failing stage (the failing
\* library call is the last one made, and no call was made twice), returns
\* that one error and no surface, and has released what it had acquired: its
\* window is destroyed, its event queue and glfw handle are gone.  While the
\* stages run there is no result.
C5_FailureEndsAttempt ==
  /\ (Returned /\ result.variant # "Ok") =>
       /\ result.variant \in ErrorVariants
       /\ Last(calls) = FailingCall(result.variant)
       /\ \A i \in DOMAIN calls : Count(calls, calls[i]) = 1
       /\ NewSurfaces = {}
       /\ attempts \notin osWindows
       /\ current # attempts
       /\ window = Nil /\ events_rx = Nil /\ glfw = Nil
  /\ (pc \notin {"idle", "done"}) => result = NoResult

C5_Witness ==
  /\ Returned /\ result.variant = "GraphicsStateError"
  /\ Has(calls, "create_window") /\ Has(calls, "make_current")
  /\ attempts \notin osWindows

\* C6 as stated: FullscreenRestricted on a host with a primary monitor
\* succeeds, with a fullscreen window of the configured size.
C6_AlwaysSucceeds ==
  (Returned /\ win_opt.dim.mode = "FullscreenRestricted" /\ host.monitor) =>
    /\ result.variant = "Ok"
    /\ \A i \in NewSurfaces :
         /\ surfaces[i].window.mode = "FullScreen"
         /\ surfaces[i].window.width = win_opt.dim.width
         /\ surfaces[i].window.height = win_opt.dim.height

\* C6 amended: FullscreenRestricted on a host with a primary monitor never
\* asks for the video mode and never fails with NoPrimaryMonitor or
\* NoVideoMode; it returns Ok, InitError, WindowCreationFailed or
\* GraphicsStateError, and when it returns Ok the window was created
\* fullscreen with exactly the configured width and height.
C6_RestrictedOutcomes ==
  (Returned /\ win_opt.dim.mode = "FullscreenRestricted" /\ host.monitor) =>
    /\ result.variant \in
         {"Ok", "InitError", "WindowCreationFailed", "GraphicsStateError"}
    /\ ~Has(calls, "get_video_mode")
    /\ (result.variant = "Ok") <=> (NewSurfaces # {})
    /\ \A i \in NewSurfaces :
         /\ surfaces[i].window.mode = "FullScreen"
         /\ surfaces[i].window.width = win_opt.dim.width
         /\ surfaces[i].window.height = win_opt.dim.height

C6_Witness ==
  /\ Returned /\ win_opt.dim.mode = "FullscreenRestricted"
  /\ host.monitor /\ host.vmode = Nil
  /\ result = Ok
  /\ \E i \in NewSurfaces :
       /\ surfaces[i].window.mode = "FullScreen"
       /\ surfaces[i].window.width = 3
       /\ surfaces[i].window.height = 2

\* ---------------------------------------------------------------------------
\* Properties of a surface in use
\* ---------------------------------------------------------------------------

\* C7: any two calls of back_buffer on the same surface with no resize event
\* between them return the same result (the same size, or the same error),
\* and no call of back_buffer changes the framebuffer size of the window.
C7_BackBufferStable ==
  /\ \A j, k \in DOMAIN bbLog :
       (j < k /\ bbLog[j].id = bbLog[k].id /\ bbLog[j].epoch = bbLog[k].epoch) =>
         bbLog[j].result = bbLog[k].result
  /\ \A k \in DOMAIN bbLog : bbLog[k].after = bbLog[k].before

C7_Witness ==
  /\ Len(bbLog) >= 3
  /\ bbLog[1].epoch = 0 /\ bbLog[2].epoch = 1 /\ bbLog[3].epoch = 1
  /\ bbLog[1].result # bbLog[2].result
  /\ bbLog[2].result = [variant |-> "Ok", size |-> <<AsU32(3), AsU32(2)>>]
  /\ bbLog[3].result = bbLog[2].result

\* C16: whatever resize events came before, every call of back_buffer
\* requests a framebuffer of the size the window's framebuffer has at the
\* moment of the call, not of a size seen earlier, and returns a framebuffer
\* error when that size has a zero width or a zero height.
C16_SizeAtCall ==
  \A k \in DOMAIN bbLog :
    LET e == bbLog[k] IN
      /\ e.requested = <<AsU32(e.before[1]), AsU32(e.before[2])>>
      /\ (e.before[1] = 0 \/ e.before[2] = 0) =>
           e.result = [variant |-> "Err", error |-> "FramebufferError"]
      /\ e.result.variant = "Ok" => e.result.size = e.requested

C16_Witness ==
  /\ Len(bbLog) = 2 /\ resizes = 2
  /\ surfaces[1].window.width = 2 /\ surfaces[1].window.height = 3
  /\ bbLog[1].epoch = 1 /\ bbLog[1].before = <<3, 2>>
  /\ bbLog[1].result = [variant |-> "Ok", size |-> <<AsU32(3), AsU32(2)>>]
  /\ bbLog[2].epoch = 2 /\ bbLog[2].before = <<0, 3>>
  /\ bbLog[2].result.variant = "Err"

\* The 32-bit value whose halves are r, minus 2^32 when its top bit is set:
\* the i32 with the same bits.
SameBitsI32(r) ==
  IF r.hi >= 32768 THEN (r.hi - 65536) * 65536 + r.lo ELSE r.hi * 65536 + r.lo

\* C19: back_buffer converts each signed dimension d the window reports to
\* u32 by a wrapping cast: the requested dimension is d itself when d >= 0
\* and d + 2^32 when d < 0 (the u32 with the bits of d), and a negative
\* dimension is not rejected by back_buffer: the request is made with the
\* wrapped value.
C19_WrappingCast ==
  \A k \in DOMAIN bbLog : \A n \in 1..2 :
    LET d == bbLog[k].before[n]
        r == bbLog[k].requested[n]
    IN /\ r.hi \in 0..65535 /\ r.lo \in 0..65535
       /\ d >= 0 => (r.hi < 32768 /\ r.hi * 65536 + r.lo = d)
       /\ d < 0 => (r.hi >= 32768 /\ SameBitsI32(r) = d)
       /\ (d < 0 /\ bbLog[k].before[3 - n] # 0) =>
            bbLog[k].result = [variant |-> "Ok", size |-> bbLog[k].requested]

C19_Witness ==
  \E k \in DOMAIN bbLog :
    /\ bbLog[k].before = <<-1, 2>>
    /\ bbLog[k].requested = <<[hi |-> 65535, lo |-> 65535], [hi |-> 0, lo |-> 2]>>
    /\ bbLog[k].result.variant = "Ok"

\* The events a client has received, in the order it received them.
Received == [k \in DOMAIN yielded |-> yielded[k].msg]

\* C8: whatever the interleaving of appends and drains, the client receives
\* the events of a window in the order they were appended, receives each
\* appended event at most once, receives only appended events, and an event
\* received in one drain is not received in a later drain.
C8_EventOrder ==
  /\ \A j, k \in DOMAIN yielded :
       (j < k /\ yielded[j].msg.win = yielded[k].msg.win) =>
         /\ yielded[j].msg.time < yielded[k].msg.time
         /\ yielded[j].drain <= yielded[k].drain
  /\ \A j, k \in DOMAIN yielded : j # k => yielded[j].msg # yielded[k].msg
  /\ \A k \in DOMAIN yielded : Has(sent, yielded[k].msg)
  /\ \A i \in DOMAIN surfaces : \A e \in DOMAIN surfaces[i].events_rx.queue :
       ~Has(Received, surfaces[i].events_rx.queue[e])

C8_Witness ==
  /\ Len(sent) = 3
  /\ drains = 2
  /\ Len(yielded) = 3
  /\ yielded[1].drain = 1 /\ yielded[2].drain = 2 /\ yielded[3].drain = 2
  /\ Received = sent

\* The constructor of the resource each method of the context stands for.
ResourceConstructor(method) ==
  CASE method = "new_buffer" -> "Buffer::new"
    [] method = "new_buffer_from_vec" -> "Buffer::from_vec"
    [] method = "new_buffer_repeating" -> "Buffer::repeat"
    [] method = "new_framebuffer" -> "Framebuffer::new"
    [] method = "new_shader_stage" -> "Stage::new"
    [] method = "new_texture" -> "Texture::new"

\* C9: every call of a fallible constructor of the context made exactly one
\* call of the resource's constructor, with the arguments it was given, and
\* returned the result of that call, error included, unchanged.
C9_Delegation ==
  \A k \in DOMAIN ctxLog :
    /\ Len(ctxLog[k].invoked) = 1
    /\ ctxLog[k].invoked[1].op = ResourceConstructor(ctxLog[k].method)
    /\ ctxLog[k].invoked[1].args = ctxLog[k].args
    /\ ctxLog[k].ret = ctxLog[k].invoked[1].result

C9_Witness ==
  /\ Len(ctxLog) = 3
  /\ ctxLog[1].method = "new_shader_stage"
  /\ ctxLog[1].ret = [variant |-> "Err", error |-> "StageError"]
  /\ ctxLog[2].method = "new_texture"
  /\ ctxLog[2].ret = [variant |-> "Err", error |-> "TextureError"]
  /\ ctxLog[3].method = "new_buffer_from_vec"
  /\ ctxLog[3].ret.variant = "Ok"

\* Accepted, or the error it was rejected with.
Outcome(r) == IF r.variant = "Ok" THEN "Ok" ELSE r.error

ResolveCalls(mode) ==
  CASE mode = "Windowed" -> <<"create_window">>
    [] mode = "Fullscreen" -> <<"with_primary_monitor", "get_video_mode", "create_window">>
    [] mode = "FullscreenRestricted" -> <<"with_primary_monitor", "create_window">>

\* The library calls of a whole call of new_gl33, in order.
StageOrder(mode) ==
  <<"init", "window_hint">> \o ResolveCalls(mode) \o
  <<"make_current", "set_cursor_mode", "set_all_polling", "set_swap_interval",
    "load_with", "GL33::new">>

IsPrefix(a, b) == Len(a) <= Len(b) /\ a = SubSeq(b, 1, Len(a))

\* C12: at every point of every call of new_gl33 the library calls made so
\* far are the first ones of the fixed order init, window hints, monitor and
\* video-mode lookup and window creation, make_current, input configuration
\* and swap interval, symbol loading, GL33::new, each made once; so the hints
\* are set before a window is created in all three dimension modes (and the
\* window has the sample count then hinted), and GL33::new is called only
\* when the context is current and the symbols are loaded.
C12_StageOrder ==
  (pc # "idle") =>
    /\ IsPrefix(calls, StageOrder(win_opt.dim.mode))
    /\ \A i \in DOMAIN calls : Count(calls, calls[i]) = 1
    /\ Has(calls, "create_window") =>
         /\ Pos(calls, "window_hint") < Pos(calls, "create_window")
         /\ window # Nil => window.samples = win_opt.num_samples
    /\ Has(calls, "GL33::new") =>
         /\ Pos(calls, "make_current") < Pos(calls, "GL33::new")
         /\ Pos(calls, "load_with") < Pos(calls, "GL33::new")
    /\ pc = "acquire" => current = window.id

C12_Witness ==
  /\ Returned /\ result = Ok
  /\ win_opt.dim.mode = "Fullscreen"
  /\ calls = StageOrder("Fullscreen")

\* C13: in stage 3 the first missing prerequisite names the error.  In
\* Fullscreen mode the monitor is looked up before its video mode and the
\* video mode before the window is created, so a host without a monitor (and
\* hence without a video mode) gives NoPrimaryMonitor once glfw::init has
\* succeeded; WindowCreationFailed is returned only when create_window was
\* called and failed; in Windowed mode no monitor is looked up and neither
\* NoPrimaryMonitor nor NoVideoMode is returned.
C13_FirstMissingPrerequisite ==
  Returned =>
    /\ (win_opt.dim.mode = "Fullscreen" /\ host.init_ok /\ ~host.monitor) =>
         /\ host.vmode = Nil
         /\ result.variant = "NoPrimaryMonitor"
         /\ ~Has(calls, "get_video_mode")
    /\ Has(calls, "get_video_mode") =>
         Pos(calls, "with_primary_monitor") < Pos(calls, "get_video_mode")
    /\ (win_opt.dim.mode = "Fullscreen" /\ Has(calls, "create_window")) =>
         Pos(calls, "get_video_mode") < Pos(calls, "create_window")
    /\ result.variant = "WindowCreationFailed" =>
         /\ Has(calls, "create_window")
         /\ ~host.create_ok
    /\ win_opt.dim.mode = "Windowed" =>
         /\ ~Has(calls, "with_primary_monitor")
         /\ ~Has(calls, "get_video_mode")
         /\ result.variant \notin {"NoPrimaryMonitor", "NoVideoMode"}

C13_Witness ==
  /\ Returned
  /\ win_opt.dim.mode = "Fullscreen" /\ ~host.monitor /\ ~host.create_ok
  /\ result.variant = "NoPrimaryMonitor"
  /\ calls = <<"init", "window_hint", "with_primary_monitor">>

\* The stage of new_gl33 each library call belongs to.
StageOfCall(c) ==
  CASE c = "init" -> 1
    [] c = "window_hint" -> 2
    [] c \in {"with_primary_monitor", "get_video_mode", "create_window"} -> 3
    [] c = "make_current" -> 4
    [] c \in {"set_cursor_mode", "set_all_polling", "set_swap_interval"} -> 5
    [] c = "load_with" -> 6
    [] c = "GL33::new" -> 7

\* The stage each error variant stands for.
StageOfVariant(v) ==
  CASE v = "InitError" -> 1
    [] v \in {"WindowCreationFailed", "NoPrimaryMonitor", "NoVideoMode"} -> 3
    [] v = "GraphicsStateError" -> 7

\* C14: the variant of an error new_gl33 returns names the stage that
\* failed: the last library call made belongs to the stage of the variant,
\* which is 1 for InitError, 3 for WindowCreationFailed, NoPrimaryMonitor and
\* NoVideoMode, and 7 for GraphicsStateError; InitError is returned exactly
\* when glfw::init fails; no error comes from stage 2, 4, 5 or 6.
C14_VariantNamesStage ==
  /\ (Returned /\ result.variant # "Ok") =>
       /\ result.variant \in ErrorVariants
       /\ StageOfCall(Last(calls)) = StageOfVariant(result.variant)
       /\ StageOfCall(Last(calls)) \in {1, 3, 7}
  /\ Returned => ((result.variant = "InitError") <=> ~host.init_ok)
  /\ (Returned /\ result.variant = "Ok") => Last(calls) = "GL33::new"

C14_Witness ==
  /\ Returned /\ result.variant = "InitError"
  /\ ~host.init_ok /\ host.monitor /\ host.create_ok /\ host.query_ok
  /\ calls = <<"init">>

\* The cursor mode of the window for each configured cursor mode.
ExpectedCursor(c) ==
  CASE c = "Visible" -> "Normal"
    [] c = "Invisible" -> "Hidden"
    [] c = "Disabled" -> "Disabled"

\* C15: the window of every surface new_gl33 returns has the cursor mode
\* that the configured mode maps to (Visible to Normal, Invisible to Hidden,
\* Disabled to Disabled; no two configured modes share a window mode), has
\* polling of all events on, swap interval 1, and was created under a
\* sample hint equal to the configured sample count.
C15_InputConfigured ==
  /\ \A c1, c2 \in CursorModes : c1 # c2 => GlfwCursorMode(c1) # GlfwCursorMode(c2)
  /\ (Returned /\ result = Ok) =>
       /\ NewSurfaces # {}
       /\ \A i \in NewSurfaces :
            /\ surfaces[i].window.cursor = ExpectedCursor(win_opt.cursor_mode)
            /\ surfaces[i].window.polling
            /\ surfaces[i].window.swap = 1
            /\ surfaces[i].window.samples = win_opt.num_samples

C15_Witness ==
  /\ Returned /\ result = Ok
  /\ win_opt.cursor_mode = "Invisible" /\ win_opt.num_samples = 4
  /\ \E i \in NewSurfaces :
       /\ surfaces[i].window.cursor = "Hidden"
       /\ surfaces[i].window.polling
       /\ surfaces[i].window.samples = 4

C18_FailureKeepsAcquisition ==
  [][ /\ (pc \in {"init", "resolve"} /\ pc' = "done") =>
           /\ acquired' = acquired
           /\ surfaces' = surfaces
           /\ result'.variant \in {"InitError", "NoPrimaryMonitor", "NoVideoMode",
                                    "WindowCreationFailed"}
      /\ (pc' = "done" /\ pc # "done" /\ result'.cause = "UnavailableGLState") =>
           \E i \in DOMAIN surfaces : surfaces[i].window.id < attempts
    ]_vars

C18_Witness ==
  /\ Returned /\ attempts = 2 /\ dropped = 0
  /\ result.variant = "NoVideoMode"
  /\ ~acquired /\ surfaces = <<>>

\* C11: on a surface that new_gl33 returned, every call of backend() returns
\* the backend the surface owns, which is the one acquired in stage 7 of its
\* construction; through backend(), back_buffer() and the constructors that
\* backend is never absent, never another instance, never shared with
\* another surface, and GL33::new is not called again.
C11_BackendStable ==
  /\ \A i \in DOMAIN surfaces :
       /\ surfaces[i].gl # Nil
       /\ surfaces[i].gl.id = surfaces[i].window.id
  /\ \A i, j \in DOMAIN surfaces : i # j => surfaces[i].gl.id # surfaces[j].gl.id
  /\ \A k \in DOMAIN backendLog :
       /\ backendLog[k].gl = backendLog[k].owned
       /\ backendLog[k].gl.id = backendLog[k].ctx
  /\ acquired
  /\ ~Has(calls, "GL33::new")

C11_Witness ==
  /\ Len(backendLog) = 2 /\ Len(ctxLog) = 1
  /\ ctxLog[1].ret.variant = "Ok"
  /\ backendLog[1].gl = [id |-> 1, nres |-> 0]
  /\ backendLog[2].gl = [id |-> 1, nres |-> 1]

====
